---- MODULE Spec2Model ----
(***************************************************************************)
(* State-machine model of the workspace glue of the collaborative editor:  *)
(* the jotai atoms of src/atoms/firebaseAtoms.ts (identity, workspace      *)
(* reference resolver, permission-gated accessors, the two join            *)
(* operations), the copy page of src/pages/CopyFilePage.tsx and the        *)
(* settings modal of src/components/settings/SettingsModal.tsx.            *)
(*                                                                         *)
(* JavaScript strings are TLA+ strings; the JavaScript values null and     *)
(* undefined where a string is expected are the string Null, which is no   *)
(* identifier, name or permission of the model.  An absent database value  *)
(* is a record or object whose entries are all Null.                       *)
(***************************************************************************)
EXTENDS Integers, Sequences, FiniteSets, TLC

VARIABLES
  store,                 \* the realtime database: document key -> document
  baseFileId,            \* baseFileIdAtom
  firebaseRef,           \* firebaseRefAtom: key of the workspace reference, or Null
  userRef,               \* userRefAtom
  userName,              \* userNameAtom
  defaultPermission,     \* defaultPermissionAtom
  actualUserPermission,  \* actualUserPermissionAtom
  pushCount,             \* number of keys handed out by push()
  location,              \* the browser address
  fx,                    \* what the last synchronous handler did to the browser and the atoms
  join,                  \* the join operation in flight, with what it read and wrote
  peer,                  \* the join operation in flight in another user's session
  copy,                  \* the CopyFilePage effect in flight
  modal,                 \* the state of the SettingsModal component and its isOpen prop
  realWorkspaceSettings, \* the committed workspace settings (useSettings)
  editorModeAtom,        \* editorModeAtomWithPersistence
  firebaseUser           \* baseFirebaseUserAtom

uiVars == <<modal, realWorkspaceSettings, editorModeAtom, firebaseUser>>

vars == <<store, baseFileId, firebaseRef, userRef, userName, defaultPermission,
          actualUserPermission, pushCount, location, fx, join, peer, copy, uiVars>>

-----------------------------------------------------------------------------
(* Values *)

Null == "null"

Undefined == "undefined"

Truthy(s) == s # Null /\ s # Undefined /\ s # ""

Pad == "xxxxxxxxxxxxxxxxxx"

IdA == "a" \o Pad

IdB == "b" \o Pad

Key(id) == "-" \o id

KeyA == Key(IdA)

KeyB == Key(IdB)

UserKeys == {"u1", "u2"}

Names == {"", "Ann", "Bob"}

Permissions == {"OWNER", "READ_WRITE", "READ", "PRIVATE"}

colorFromUserId(k) == "color-" \o k

keysToCopy == <<"editor-cpp", "editor-java", "editor-py", "settings", "input">>

TopKeys == {keysToCopy[i] : i \in 1..Len(keysToCopy)}

IndexKeys == <<"0", "1">>

SubKeys == {"users", "defaultPermission", "data"} \cup {IndexKeys[i] : i \in 1..Len(IndexKeys)}

EmptyObj == [s \in SubKeys |-> Null]

NoUser == [name |-> Null, color |-> Null, permission |-> Null]

EmptyDoc == [users |-> [u \in UserKeys |-> NoUser], fields |-> [k \in TopKeys |-> EmptyObj]]

IsObj(v) == DOMAIN v = SubKeys

\* A primitive stored where an object is expected: kind is "string" or "number".
Prim(kind, v) == [prim |-> kind, v |-> v]

-----------------------------------------------------------------------------
(* The database *)

DocAt(s, k) == IF k \in DOMAIN s THEN s[k] ELSE EmptyDoc

PutDoc(s, k, d) ==
  IF d = EmptyDoc
  THEN [x \in DOMAIN s \ {k} |-> s[x]]
  ELSE [x \in DOMAIN s \cup {k} |-> IF x = k THEN d ELSE s[x]]

SetChild(v, sub, x) ==
  IF IsObj(v) THEN [v EXCEPT ![sub] = x] ELSE [EmptyObj EXCEPT ![sub] = x]

UserAt(s, r) == DocAt(s, r.doc).users[r.key]

StoredDefaultPermission(s, k) ==
  LET v == DocAt(s, k).fields["settings"]
  IN  IF IsObj(v) THEN v["defaultPermission"] ELSE Null

-----------------------------------------------------------------------------
(* References *)

NullUserRef == [null |-> TRUE]

RootRef == [doc |-> Null, key |-> Null]

UserRefOf(doc, u) == [doc |-> doc, key |-> u]

NullFile == [null |-> TRUE]

\* fx before any handler ran
NoFx == [op |-> "none"]

-----------------------------------------------------------------------------
(* The reference resolver: the write function of fileIdAtom.  The optional   *)
(* isNewFile of the payload is only ever tested for truth, so undefined is   *)
(* FALSE here.                                                               *)

MaxPush == 2

PushChars == <<"p", "q", "r", "s", "t", "u">>

\* The key of the n-th ref.push(): a dash and 19 more characters, new each time.
PushKey(n) == "-" \o PushChars[n] \o Pad

NullPayload == [null |-> TRUE]

Payload(newId, isNewFile) == [newId |-> newId, isNewFile |-> isNewFile]

\* key.substr(1), key.slice(1)
DropFirst(key) == SubSeq(key, 2, Len(key))

\* navigate(to, { replace: true }) of @reach/router, to = path + search: the current
\* history entry is replaced, so the number of entries stays.
navigate(loc, path, search, replace) ==
  [path |-> path, search |-> search,
   entries |-> IF replace THEN loc.entries ELSE loc.entries + 1]

\* The re-entry guard: target file already loaded, ignore.
alreadyLoaded(file, newId) ==
  (IF file = NullFile THEN Null ELSE file.id) = newId /\ Truthy(newId)

FileIdFx(payload, prev, setId, setRef, navigated) ==
  [op |-> "fileId", payload |-> payload,
   prevPayload |-> IF fx.op = "fileId" THEN fx.payload ELSE NullPayload,
   prevFile |-> prev, setId |-> setId, setRef |-> setRef, navigated |-> navigated]

\* fileIdAtomWrite with a null payload clearing the identifier only.
fileIdAtomWrite_KeepRefOnNull(payload) ==
  IF payload = NullPayload
  THEN /\ baseFileId' = NullFile
       /\ firebaseRef' = firebaseRef
       /\ fx' = FileIdFx(payload, baseFileId, TRUE, FALSE, FALSE)
       /\ UNCHANGED <<pushCount, location>>
  ELSE IF alreadyLoaded(baseFileId, payload.newId)
  THEN /\ fx' = FileIdFx(payload, baseFileId, FALSE, FALSE, FALSE)
       /\ UNCHANGED <<baseFileId, firebaseRef, pushCount, location>>
  ELSE LET pushed == ~Truthy(payload.newId)
           key == IF pushed THEN PushKey(pushCount + 1) ELSE Key(payload.newId)
       IN  /\ pushed => pushCount < MaxPush
           /\ pushCount' = IF pushed THEN pushCount + 1 ELSE pushCount
           /\ baseFileId' = [id |-> key, isNewFile |-> payload.isNewFile]
           /\ location' = IF payload.isNewFile
                          THEN navigate(location, "/" \o DropFirst(key), location.search, TRUE)
                          ELSE location
           /\ firebaseRef' = key
           /\ fx' = FileIdFx(payload, baseFileId, TRUE, TRUE, payload.isNewFile)

\* set(fileIdAtom, payload): everything the write function does.
fileIdAtomWrite(payload) ==
  IF payload = NullPayload
  THEN /\ baseFileId' = NullFile
       /\ firebaseRef' = Null
       /\ fx' = FileIdFx(payload, baseFileId, TRUE, TRUE, FALSE)
       /\ UNCHANGED <<pushCount, location>>
  ELSE IF alreadyLoaded(baseFileId, payload.newId)
  THEN /\ fx' = FileIdFx(payload, baseFileId, FALSE, FALSE, FALSE)
       /\ UNCHANGED <<baseFileId, firebaseRef, pushCount, location>>
  ELSE LET pushed == ~Truthy(payload.newId)
           key == IF pushed THEN PushKey(pushCount + 1) ELSE Key(payload.newId)
       IN  /\ pushed => pushCount < MaxPush
           /\ pushCount' = IF pushed THEN pushCount + 1 ELSE pushCount
           /\ baseFileId' = [id |-> key, isNewFile |-> payload.isNewFile]
           /\ location' = IF payload.isNewFile
                          THEN navigate(location, "/" \o DropFirst(key), location.search, TRUE)
                          ELSE location
           /\ firebaseRef' = key
           /\ fx' = FileIdFx(payload, baseFileId, TRUE, TRUE, payload.isNewFile)

NewIds == {Null, "", IdA, IdB, KeyA} \cup {DropFirst(PushKey(n)) : n \in 1..pushCount}

SetFileId ==
  /\ \E payload \in {NullPayload} \cup {Payload(i, b) : i \in NewIds, b \in BOOLEAN} :
       fileIdAtomWrite(payload)
  /\ UNCHANGED <<peer, store, userRef, userName, defaultPermission, actualUserPermission,
                 join, copy, uiVars>>

-----------------------------------------------------------------------------
(* The permission-gated accessors, derived atoms: their value is a function  *)
(* of the atoms they read.                                                   *)

authenticatedUserRefAtom_NoRead ==
  IF actualUserPermission = "OWNER" \/ actualUserPermission = "READ_WRITE"
  THEN userRef
  ELSE NullUserRef

authenticatedFirebaseRefAtom ==
  IF \/ actualUserPermission = "OWNER"
     \/ actualUserPermission = "READ_WRITE"
     \/ actualUserPermission = "READ"
  THEN firebaseRef
  ELSE Null

authenticatedUserRefAtom ==
  IF \/ actualUserPermission = "OWNER"
     \/ actualUserPermission = "READ_WRITE"
     \/ actualUserPermission = "READ"
  THEN userRef
  ELSE NullUserRef

\* Writes of the atoms the accessors read, by the workspace initialiser.
SetActualUserPermission ==
  /\ \E p \in Permissions \cup {Null} :
       /\ p # actualUserPermission
       /\ actualUserPermission' = p
  /\ UNCHANGED <<peer, store, baseFileId, firebaseRef, userRef, userName, defaultPermission,
                 pushCount, location, fx, join, copy, uiVars>>

SetUserRef ==
  /\ \E r \in {NullUserRef, RootRef}
              \cup (IF firebaseRef = Null THEN {}
                    ELSE {UserRefOf(firebaseRef, u) : u \in UserKeys}) :
       /\ r # userRef
       /\ userRef' = r
  /\ UNCHANGED <<peer, store, baseFileId, firebaseRef, userName, defaultPermission,
                 actualUserPermission, pushCount, location, fx, join, copy, uiVars>>

-----------------------------------------------------------------------------
(* The join operations: joinNewWorkspaceAsOwnerAtom and                     *)
(* joinExistingWorkspaceWithDefaultPermissionAtom.  Each is an async        *)
(* function: the synchronous part up to the first database call is one      *)
(* step, and every database call completes in a step of its own, so that    *)
(* other clients' writes can fall in between.                               *)

JoinBlank(op) ==
  [op |-> op, pc |-> "done", at |-> "start", ref |-> Null, userRef |-> RootRef,
   name |-> Null, permission |-> Null, snap |-> NoUser, write |-> "none",
   result |-> "none", error |-> "", reads |-> 0, writes |-> 0]

\* The operation threw before its first database call.
JoinThrown(op, message) == [JoinBlank(op) EXCEPT !.result = "error", !.error = message]

\* The operation is waiting for a database call to complete.
JoinPending(op, pc, ref, uref, name, permission, reads) ==
  [JoinBlank(op) EXCEPT !.pc = pc, !.at = pc, !.ref = ref, !.userRef = uref,
                        !.name = name, !.permission = permission, !.reads = reads]

\* The operation's promise settled: resolved ("ok") or rejected ("error").
JoinSettled(j, result, error, writes) ==
  [j EXCEPT !.pc = "done", !.result = result, !.error = error, !.writes = writes]

RefError == "ref must be set before workspace can be joined"

UserRefError == "userRef (and userRef.key) must be set before workspace can be joined"

NameError == "user name must be set before workspace can be joined"

PermissionError == "permission must be set before workspace can be joined"

\* joinPrecondition with the name guard written as a null test: an empty name passes.
joinPrecondition_NullNameOnly(ref, uref, name) ==
  IF ref = Null THEN RefError
  ELSE IF uref = NullUserRef \/ uref.key = Null THEN UserRefError
  ELSE IF name = Null THEN NameError
  ELSE ""

\* The guards both operations start with: the message thrown, or "" when none is.
joinPrecondition(ref, uref, name) ==
  IF ref = Null THEN RefError
  ELSE IF uref = NullUserRef \/ uref.key = Null THEN UserRefError
  ELSE IF ~Truthy(name) THEN NameError
  ELSE ""

joinExistingPrecondition(ref, uref, name, permission) ==
  IF joinPrecondition(ref, uref, name) # "" THEN joinPrecondition(ref, uref, name)
  ELSE IF ~Truthy(permission) THEN PermissionError
  ELSE ""

\* ownerUpdate without its second path: the default permission is left as it was.
ownerUpdate_UsersOnly(doc, key, name) ==
  [doc EXCEPT
     !.users[key] = [name |-> name, color |-> colorFromUserId(key), permission |-> "OWNER"]]

\* ref.update({users/<key>: {name, color, permission: OWNER},
\*             settings/defaultPermission: READ_WRITE}) applied to the document at ref.
ownerUpdate(doc, key, name) ==
  [doc EXCEPT
     !.users[key] = [name |-> name, color |-> colorFromUserId(key), permission |-> "OWNER"],
     !.fields["settings"] = SetChild(@, "defaultPermission", "READ_WRITE")]

\* joinExistingWrite with the private-file test reading the record's name instead of
\* its permission.
joinExistingWrite_PrivateByName(permission, snap, name) ==
  IF permission = "PRIVATE" /\ ~Truthy(snap.name) THEN "none"
  ELSE IF ~Truthy(snap.name) THEN "update"
  ELSE IF snap.name # name THEN "name"
  ELSE "none"

\* What the callback of userRef.once('value') decides to write.
joinExistingWrite(permission, snap, name) ==
  IF permission = "PRIVATE" /\ ~Truthy(snap.permission) THEN "none"
  ELSE IF ~Truthy(snap.name) THEN "update"
  ELSE IF snap.name # name THEN "name"
  ELSE "none"

\* userNameSet as a set() of the whole record instead of its name child.
userNameSet_WholeRecord(rec, name) == [NoUser EXCEPT !.name = name]

\* userUpdate as a set() of the record: what the record held before is dropped.
userUpdate_Replace(rec, key, name) ==
  [NoUser EXCEPT !.name = name, !.color = colorFromUserId(key)]

\* userRef.update({name, color}) and userRef.child('name').set(name) applied to the
\* record at userRef.
userUpdate(rec, key, name) == [rec EXCEPT !.name = name, !.color = colorFromUserId(key)]

userNameSet(rec, name) == [rec EXCEPT !.name = name]

\* joinExistingCatch without the test of the code: every rejection is swallowed.
joinExistingCatch_SwallowAll(code) == "ok"

\* The .catch of join-existing: the result of the operation for a rejection code.
joinExistingCatch(code) == IF code = "PERMISSION_DENIED" THEN "ok" ELSE "error"

Outcomes == {"ok", "PERMISSION_DENIED", "UNAVAILABLE"}

JoinOwnerStart ==
  /\ join.pc = "done"
  /\ LET e == joinPrecondition(firebaseRef, userRef, userName)
     IN  join' = IF e # "" THEN JoinThrown("owner", e)
                 ELSE JoinPending("owner", "updating", firebaseRef, userRef, userName, Null, 0)
  /\ UNCHANGED <<peer, store, baseFileId, firebaseRef, userRef, userName, defaultPermission,
                 actualUserPermission, pushCount, location, fx, copy, uiVars>>

JoinOwnerUpdate ==
  /\ join.op = "owner" /\ join.pc = "updating"
  /\ \E outcome \in Outcomes :
       IF outcome = "ok"
       THEN /\ store' = PutDoc(store, join.ref,
                               ownerUpdate(DocAt(store, join.ref), join.userRef.key, join.name))
            /\ join' = JoinSettled([join EXCEPT !.write = "owner"], "ok", "", 1)
       ELSE /\ store' = store
            /\ join' = JoinSettled(join, "error", outcome, 0)
  /\ UNCHANGED <<peer, baseFileId, firebaseRef, userRef, userName, defaultPermission,
                 actualUserPermission, pushCount, location, fx, copy, uiVars>>

\* The synchronous part of join-existing, for the atom values it is called with.
joinExistingStarted(ref, uref, name, permission) ==
  LET e == joinExistingPrecondition(ref, uref, name, permission)
  IN  IF e # "" THEN JoinThrown("existing", e)
      ELSE JoinPending("existing", "reading", ref, uref, name, permission, 1)

\* userRef.once('value') answered, with the record in store s or a rejection.
joinExistingAnswered(j, s, outcome) ==
  IF outcome = "ok"
  THEN LET snap == UserAt(s, j.userRef)
           w == joinExistingWrite(j.permission, snap, j.name)
       IN  IF w = "none"
           THEN JoinSettled([j EXCEPT !.snap = snap], "ok", "", 0)
           ELSE [j EXCEPT !.pc = "writing", !.at = "writing", !.snap = snap, !.write = w]
  ELSE JoinSettled(j, joinExistingCatch(outcome), outcome, 0)

\* storeAfterJoinWrite as a write of the whole user list: the records of the other
\* users are written back empty.
storeAfterJoinWrite_WholeList(j, s) ==
  LET doc == DocAt(s, j.userRef.doc)
      key == j.userRef.key
      rec == IF j.write = "update"
             THEN userUpdate(doc.users[key], key, j.name)
             ELSE userNameSet(doc.users[key], j.name)
  IN  PutDoc(s, j.userRef.doc,
             [doc EXCEPT !.users = [u \in UserKeys |-> IF u = key THEN rec ELSE NoUser]])

\* The store after the write join-existing decided on has succeeded.
storeAfterJoinWrite(j, s) ==
  LET doc == DocAt(s, j.userRef.doc)
      key == j.userRef.key
      rec == IF j.write = "update"
             THEN userUpdate(doc.users[key], key, j.name)
             ELSE userNameSet(doc.users[key], j.name)
  IN  PutDoc(s, j.userRef.doc, [doc EXCEPT !.users[key] = rec])

\* The write answered: the operation settles.
joinExistingWritten(j, outcome) ==
  IF outcome = "ok" THEN JoinSettled(j, "ok", "", 1)
  ELSE JoinSettled(j, joinExistingCatch(outcome), outcome, 0)

JoinExistingStart ==
  /\ join.pc = "done"
  /\ join' = joinExistingStarted(firebaseRef, userRef, userName, defaultPermission)
  /\ UNCHANGED <<peer, store, baseFileId, firebaseRef, userRef, userName, defaultPermission,
                 actualUserPermission, pushCount, location, fx, copy, uiVars>>

JoinExistingRead ==
  /\ join.op = "existing" /\ join.pc = "reading"
  /\ \E outcome \in Outcomes : join' = joinExistingAnswered(join, store, outcome)
  /\ UNCHANGED <<peer, store, baseFileId, firebaseRef, userRef, userName, defaultPermission,
                 actualUserPermission, pushCount, location, fx, copy, uiVars>>

JoinExistingWrite ==
  /\ join.op = "existing" /\ join.pc = "writing"
  /\ \E outcome \in Outcomes :
       /\ store' = IF outcome = "ok" THEN storeAfterJoinWrite(join, store) ELSE store
       /\ join' = joinExistingWritten(join, outcome)
  /\ UNCHANGED <<peer, baseFileId, firebaseRef, userRef, userName, defaultPermission,
                 actualUserPermission, pushCount, location, fx, copy, uiVars>>

\* Join-existing in the session of another user, u2, of the same workspace: the
\* same function run with that session's atoms.
PeerNames == {"Ann", "Bob"}

PeerPermissions == {"READ_WRITE", "PRIVATE"}

PeerJoinExistingStart ==
  /\ peer.pc = "done"
  /\ \E name \in PeerNames, permission \in PeerPermissions :
       peer' = joinExistingStarted(KeyA, UserRefOf(KeyA, "u2"), name, permission)
  /\ UNCHANGED <<store, baseFileId, firebaseRef, userRef, userName, defaultPermission,
                 actualUserPermission, pushCount, location, fx, join, copy, uiVars>>

PeerJoinExistingRead ==
  /\ peer.op = "existing" /\ peer.pc = "reading"
  /\ \E outcome \in Outcomes : peer' = joinExistingAnswered(peer, store, outcome)
  /\ UNCHANGED <<store, baseFileId, firebaseRef, userRef, userName, defaultPermission,
                 actualUserPermission, pushCount, location, fx, join, copy, uiVars>>

PeerJoinExistingWrite ==
  /\ peer.op = "existing" /\ peer.pc = "writing"
  /\ \E outcome \in Outcomes :
       /\ store' = IF outcome = "ok" THEN storeAfterJoinWrite(peer, store) ELSE store
       /\ peer' = joinExistingWritten(peer, outcome)
  /\ UNCHANGED <<baseFileId, firebaseRef, userRef, userName, defaultPermission,
                 actualUserPermission, pushCount, location, fx, join, copy, uiVars>>

-----------------------------------------------------------------------------
(* CopyFilePage: the effect run on mount with props.fileId, and the promise  *)
(* chain it starts.  Every database call completes in a step of its own.    *)

RequiredLen == 19

validQueryId_AtLeast(queryId) == queryId # Null /\ Len(queryId) >= RequiredLen

\* queryId?.length === 19
validQueryId(queryId) == queryId # Null /\ Len(queryId) = RequiredLen

\* snapshot.val() is falsy: the value is absent, or an empty string or zero.
Falsy(v) ==
  IF IsObj(v) THEN v = EmptyObj ELSE v.v = "" \/ (v.prim = "number" /\ v.v = "0")

\* The own enumerable properties of a string: its characters by index.
Chars(str) ==
  [k \in SubKeys |->
     IF \E i \in 1..Len(IndexKeys) : IndexKeys[i] = k /\ i <= Len(str)
     THEN LET i == CHOOSE j \in 1..Len(IndexKeys) : IndexKeys[j] = k
          IN  SubSeq(str, i, i)
     ELSE Null]

toKeep_KeepUsers(v) ==
  IF Falsy(v) THEN EmptyObj
  ELSE IF ~IsObj(v) THEN (IF v.prim = "string" THEN Chars(v.v) ELSE EmptyObj)
  ELSE [v EXCEPT !["defaultPermission"] = Null]

\* const { users, defaultPermission, ...toKeep } = snapshot.val() || {}
toKeep(v) ==
  IF Falsy(v) THEN EmptyObj
  ELSE IF ~IsObj(v) THEN (IF v.prim = "string" THEN Chars(v.v) ELSE EmptyObj)
  ELSE [v EXCEPT !["users"] = Null, !["defaultPermission"] = Null]

\* The document newRef.set(updateObject) leaves at newRef.
updateObject(data) ==
  [users |-> [u \in UserKeys |-> NoUser], fields |-> [k \in TopKeys |-> toKeep(data[k])]]

CopyIdle ==
  [pc |-> "idle", fileId |-> Null, oldRef |-> Null, newRef |-> Null, pending |-> {},
   data |-> [k \in TopKeys |-> EmptyObj], permissionDenied |-> FALSE,
   error |-> "", reads |-> 0, writes |-> 0]

BadUrlAlert == "Error: Bad URL"

CloneFailedAlert == "Failed to clone file: "

CopyFx(alert, navigated) == [op |-> "copy", alert |-> alert, navigated |-> navigated]

\* copyCatch without the test of the code: every rejection alerts and is thrown
\* again.
copyCatch_NeverDenied(c, code) == [c EXCEPT !.pc = "failed", !.error = code]

\* The .catch of the chain: PERMISSION_DENIED sets the permissionDenied state, any
\* other rejection alerts and is thrown again (pc "failed").  error is the code of
\* the rejection caught.
copyCatch(c, code) ==
  IF code = "PERMISSION_DENIED"
  THEN [c EXCEPT !.pc = "denied", !.permissionDenied = TRUE, !.error = code]
  ELSE [c EXCEPT !.pc = "failed", !.error = code]

copyCatchFx(code) ==
  IF code = "PERMISSION_DENIED" THEN CopyFx("", FALSE) ELSE CopyFx(CloneFailedAlert \o code, FALSE)

PrivateMessage == "This file is private."

CopyingMessage == "Copying file..."

\* What the page renders.
CopyPageMessage(c) == IF c.permissionDenied THEN PrivateMessage ELSE CopyingMessage

FileIds == {Null, "", "a", IdA, IdB, KeyA}

CopyRunning == copy.pc \in {"reading", "writing", "written"}

CopyEffect ==
  /\ ~CopyRunning
  /\ \E fileId \in FileIds :
       IF ~validQueryId(fileId)
       THEN /\ copy' = [CopyIdle EXCEPT !.pc = "badUrl", !.fileId = fileId,
                                        !.permissionDenied = copy.permissionDenied]
            /\ fx' = CopyFx(BadUrlAlert, TRUE)
            /\ location' = navigate(location, "/", "", TRUE)
            /\ UNCHANGED pushCount
       ELSE /\ pushCount < MaxPush
            /\ pushCount' = pushCount + 1
            /\ copy' = [CopyIdle EXCEPT !.pc = "reading", !.fileId = fileId,
                                        !.oldRef = Key(fileId),
                                        !.newRef = PushKey(pushCount + 1),
                                        !.pending = TopKeys,
                                        !.reads = Len(keysToCopy),
                                        !.permissionDenied = copy.permissionDenied]
            /\ fx' = CopyFx("", FALSE)
            /\ UNCHANGED location
  /\ UNCHANGED <<peer, store, baseFileId, firebaseRef, userRef, userName, defaultPermission,
                 actualUserPermission, join, uiVars>>

CopyRead ==
  /\ copy.pc = "reading"
  /\ \E key \in copy.pending, outcome \in Outcomes :
       IF outcome = "ok"
       THEN /\ copy' = [copy EXCEPT !.data[key] = DocAt(store, copy.oldRef).fields[key],
                                    !.pending = @ \ {key},
                                    !.pc = IF copy.pending = {key} THEN "writing" ELSE @]
            /\ fx' = fx
       ELSE /\ copy' = copyCatch(copy, outcome)
            /\ fx' = copyCatchFx(outcome)
  /\ UNCHANGED <<peer, store, baseFileId, firebaseRef, userRef, userName, defaultPermission,
                 actualUserPermission, pushCount, location, join, uiVars>>

CopyWrite ==
  /\ copy.pc = "writing"
  /\ \E outcome \in Outcomes :
       IF outcome = "ok"
       THEN /\ store' = PutDoc(store, copy.newRef, updateObject(copy.data))
            /\ copy' = [copy EXCEPT !.pc = "written", !.writes = 1]
            /\ fx' = fx
       ELSE /\ store' = store
            /\ copy' = copyCatch(copy, outcome)
            /\ fx' = copyCatchFx(outcome)
  /\ UNCHANGED <<peer, baseFileId, firebaseRef, userRef, userName, defaultPermission,
                 actualUserPermission, pushCount, location, join, uiVars>>

\* CopyActivate without the await of the write: setFileId as soon as the write is
\* issued.
CopyActivate_NoAwait ==
  /\ copy.pc \in {"writing", "written"}
  /\ fileIdAtomWrite(Payload(DropFirst(copy.newRef), TRUE))
  /\ copy' = [copy EXCEPT !.pc = "done"]
  /\ UNCHANGED <<peer, store, userRef, userName, defaultPermission, actualUserPermission,
                 join, uiVars>>

\* setFileId({ newId: newRef.key.slice(1), isNewFile: true }) after the awaited write.
CopyActivate ==
  /\ copy.pc = "written"
  /\ fileIdAtomWrite(Payload(DropFirst(copy.newRef), TRUE))
  /\ copy' = [copy EXCEPT !.pc = "done"]
  /\ UNCHANGED <<peer, store, userRef, userName, defaultPermission, actualUserPermission,
                 join, uiVars>>

-----------------------------------------------------------------------------
(* SettingsModal.  A settings object is a function on SettingKeys, Null for  *)
(* a key the object does not have.                                           *)

SettingKeys == {"language", "compilerOptions"}

SettingValues(k) == IF k = "language" THEN {"cpp", "py"} ELSE {"-O2"}

EditorModes == {"Normal", "Vim"}

Tabs == {"workspace", "user", "judge"}

NoFirebaseUser == [null |-> TRUE]

MaxProfileUpdates == 1

\* pending: the display names of the updateProfile calls not yet completed.
User(uid, displayName) == [uid |-> uid, displayName |-> displayName, pending |-> <<>>]

\* user.updateProfile({ displayName: name }): the call returns at once, the user
\* object changes when the identity provider has answered.
updateProfile(user, name) == [user EXCEPT !.pending = Append(@, name)]

\* firebaseUser?.displayName: undefined where the user is null.
DisplayNameOf(user) == IF user = NoFirebaseUser THEN Undefined ELSE user.displayName

nameChanged_Always(name, user) == TRUE

\* name !== firebaseUser?.displayName
nameChanged(name, user) == name # DisplayNameOf(user)

\* The reducer of the draft: { ...prev, ...next }
mergeSettings(prev, next) ==
  [k \in SettingKeys |-> IF next[k] # Null THEN next[k] ELSE prev[k]]

Partial(k, v) == [j \in SettingKeys |-> IF j = k THEN v ELSE Null]

\* The committed settings when the component mounts.
CommittedSettings ==
  [k \in SettingKeys |-> IF k = "language" THEN "cpp" ELSE Null]

\* The component as mounted, closed: the draft starts as the committed settings.
ModalClosed ==
  [isOpen |-> FALSE, dirty |-> FALSE, workspaceSettings |-> CommittedSettings,
   name |-> Null, editorMode |-> "Normal", tab |-> "workspace"]

ModalFx(op, confirmAsked, confirmed) ==
  [op |-> op, confirmAsked |-> confirmAsked, confirmed |-> confirmed]

\* The parent sets isOpen; the effect on [isOpen] seeds the draft.
OpenModal ==
  /\ ~modal.isOpen
  /\ modal' = [isOpen |-> TRUE, dirty |-> FALSE,
               workspaceSettings |-> mergeSettings(modal.workspaceSettings, realWorkspaceSettings),
               name |-> IF Truthy(DisplayNameOf(firebaseUser))
                        THEN DisplayNameOf(firebaseUser) ELSE Null,
               editorMode |-> editorModeAtom, tab |-> "workspace"]
  /\ fx' = ModalFx("open", FALSE, FALSE)
  /\ UNCHANGED <<peer, store, baseFileId, firebaseRef, userRef, userName, defaultPermission,
                 actualUserPermission, pushCount, location, join, copy,
                 realWorkspaceSettings, editorModeAtom, firebaseUser>>

SetTab ==
  /\ modal.isOpen
  /\ \E t \in Tabs : t # modal.tab /\ modal' = [modal EXCEPT !.tab = t]
  /\ fx' = ModalFx("setTab", FALSE, FALSE)
  /\ UNCHANGED <<peer, store, baseFileId, firebaseRef, userRef, userName, defaultPermission,
                 actualUserPermission, pushCount, location, join, copy,
                 realWorkspaceSettings, editorModeAtom, firebaseUser>>

\* onChange of the workspace and judge tabs
OnChange ==
  /\ modal.isOpen /\ modal.tab \in {"workspace", "judge"}
  /\ \E k \in SettingKeys : \E v \in SettingValues(k) :
       modal' = [modal EXCEPT !.dirty = TRUE,
                              !.workspaceSettings = mergeSettings(@, Partial(k, v))]
  /\ fx' = ModalFx("edit", FALSE, FALSE)
  /\ UNCHANGED <<peer, store, baseFileId, firebaseRef, userRef, userName, defaultPermission,
                 actualUserPermission, pushCount, location, join, copy,
                 realWorkspaceSettings, editorModeAtom, firebaseUser>>

OnNameChange ==
  /\ modal.isOpen /\ modal.tab = "user"
  /\ \E n \in Names : modal' = [modal EXCEPT !.dirty = TRUE, !.name = n]
  /\ fx' = ModalFx("edit", FALSE, FALSE)
  /\ UNCHANGED <<peer, store, baseFileId, firebaseRef, userRef, userName, defaultPermission,
                 actualUserPermission, pushCount, location, join, copy,
                 realWorkspaceSettings, editorModeAtom, firebaseUser>>

OnEditorModeChange ==
  /\ modal.isOpen /\ modal.tab = "user"
  /\ \E m \in EditorModes : modal' = [modal EXCEPT !.dirty = TRUE, !.editorMode = m]
  /\ fx' = ModalFx("edit", FALSE, FALSE)
  /\ UNCHANGED <<peer, store, baseFileId, firebaseRef, userRef, userName, defaultPermission,
                 actualUserPermission, pushCount, location, join, copy,
                 realWorkspaceSettings, editorModeAtom, firebaseUser>>

\* The Cancel and X buttons.  answer is what the user replies to confirm().
CloseWithoutSaving ==
  /\ modal.isOpen
  /\ \E answer \in BOOLEAN :
       IF modal.dirty
       THEN /\ modal' = [modal EXCEPT !.isOpen = ~answer]
            /\ fx' = ModalFx("closeWithoutSaving", TRUE, answer)
       ELSE /\ modal' = [modal EXCEPT !.isOpen = FALSE]
            /\ fx' = ModalFx("closeWithoutSaving", FALSE, FALSE)
  /\ UNCHANGED <<peer, store, baseFileId, firebaseRef, userRef, userName, defaultPermission,
                 actualUserPermission, pushCount, location, join, copy,
                 realWorkspaceSettings, editorModeAtom, firebaseUser>>

\* The onClose of the Dialog (Escape, a click outside the panel): onClose().
DialogOnClose ==
  /\ modal.isOpen
  /\ modal' = [modal EXCEPT !.isOpen = FALSE]
  /\ fx' = ModalFx("dialogOnClose", FALSE, FALSE)
  /\ UNCHANGED <<peer, store, baseFileId, firebaseRef, userRef, userName, defaultPermission,
                 actualUserPermission, pushCount, location, join, copy,
                 realWorkspaceSettings, editorModeAtom, firebaseUser>>

\* What saveAndClose did: the calls it made inside the name branch.
SaveFx(profileUpdate, recordSet, nameSet) ==
  [op |-> "saveAndClose", confirmAsked |-> FALSE, confirmed |-> FALSE,
   profileUpdate |-> profileUpdate, recordSet |-> recordSet, nameSet |-> nameSet]

\* The Save button.  updateProfile is on the user object the atom holds; the write
\* of the name goes through the permission-gated user reference, and nothing waits
\* for it or handles its failure.
SaveAndClose ==
  /\ modal.isOpen
  /\ (nameChanged(modal.name, firebaseUser) /\ firebaseUser # NoFirebaseUser)
       => Len(firebaseUser.pending) < MaxProfileUpdates
  /\ realWorkspaceSettings' = modal.workspaceSettings
  /\ editorModeAtom' = modal.editorMode
  /\ IF nameChanged(modal.name, firebaseUser)
     THEN /\ firebaseUser' = IF firebaseUser = NoFirebaseUser THEN firebaseUser
                             ELSE updateProfile(firebaseUser, modal.name)
          /\ IF authenticatedUserRefAtom = NullUserRef \/ authenticatedUserRefAtom = RootRef
             THEN store' = store
             ELSE \E outcome \in {"ok", "PERMISSION_DENIED"} :
                    store' = IF outcome # "ok" THEN store
                             ELSE LET doc == DocAt(store, authenticatedUserRefAtom.doc)
                                  IN  PutDoc(store, authenticatedUserRefAtom.doc,
                                        [doc EXCEPT !.users[authenticatedUserRefAtom.key] =
                                                       userNameSet(@, modal.name)])
          /\ userName' = modal.name
          /\ fx' = SaveFx(firebaseUser # NoFirebaseUser,
                          authenticatedUserRefAtom # NullUserRef, TRUE)
     ELSE /\ UNCHANGED <<firebaseUser, store, userName>>
          /\ fx' = SaveFx(FALSE, FALSE, FALSE)
  /\ modal' = [modal EXCEPT !.isOpen = FALSE]
  /\ UNCHANGED <<peer, baseFileId, firebaseRef, userRef, defaultPermission,
                 actualUserPermission, pushCount, location, join, copy>>

\* The identity provider answers the oldest updateProfile call: on success the user
\* object takes the name, on failure it keeps its own.
ProfileUpdated ==
  /\ firebaseUser # NoFirebaseUser
  /\ firebaseUser.pending # <<>>
  /\ \E outcome \in {"ok", "UNAVAILABLE"} :
       firebaseUser' = [firebaseUser EXCEPT
                          !.pending = Tail(@),
                          !.displayName = IF outcome = "ok" THEN Head(firebaseUser.pending) ELSE @]
  /\ fx' = ModalFx("profileUpdated", FALSE, FALSE)
  /\ UNCHANGED <<peer, store, baseFileId, firebaseRef, userRef, userName, defaultPermission,
                 actualUserPermission, pushCount, location, join, copy,
                 modal, realWorkspaceSettings, editorModeAtom>>

-----------------------------------------------------------------------------
(* The identity adapter: firebaseUserAtom and its subscription *)

\* The fixed name list.
animals == {"Ant", "Bee"}

\* 'Anonymous ' + animals[...]
DefaultName(animal) == "Anonymous " \o animal

\* The name set into userNameAtom, without the test of the display name.
resolvedName_AlwaysDefault(user, name) == name

\* The name set into userNameAtom for a non-null user: its display name, or the
\* default name when it has none.
resolvedName(user, name) == IF ~Truthy(user.displayName) THEN name ELSE user.displayName

AuthFx(user, name) == [op |-> "authStateChanged", user |-> user, name |-> name]

\* The write of firebaseUserAtom with the notified user; name is the default name
\* drawn for this write.
firebaseUserAtomWrite(user, name) ==
  IF user # NoFirebaseUser
  THEN /\ firebaseUser' = IF ~Truthy(user.displayName) THEN updateProfile(user, name)
                          ELSE user
       /\ userName' = resolvedName(user, name)
       /\ fx' = AuthFx(user, resolvedName(user, name))
  ELSE /\ firebaseUser' = user
       /\ userName' = Null
       /\ fx' = AuthFx(user, Null)

\* The users a notification delivers: null, the user object the atom holds, or the
\* user of a session, without a display name or with the one stored for it.
NotifiedUsers == {NoFirebaseUser, firebaseUser, User("u1", Null), User("u1", "Ann")}

\* The callback of onAuthStateChanged: setAtom(user).
AuthStateChanged ==
  /\ \E user \in NotifiedUsers, animal \in animals :
       /\ (user # NoFirebaseUser /\ ~Truthy(user.displayName))
            => Len(user.pending) < MaxProfileUpdates
       /\ firebaseUserAtomWrite(user, DefaultName(animal))
  /\ UNCHANGED <<peer, store, baseFileId, firebaseRef, userRef, defaultPermission,
                 actualUserPermission, pushCount, location, join, copy,
                 modal, realWorkspaceSettings, editorModeAtom>>

-----------------------------------------------------------------------------
(* Other clients of the same database, and the subscription that mirrors    *)
(* settings/defaultPermission of the active workspace into                  *)
(* defaultPermissionAtom.                                                   *)

RemoteNames == {Null, "", "Ann", "Bob"}

RemotePermissions == {Null, "OWNER", "READ"}

DefaultPermissions == {"READ_WRITE", "READ", "PRIVATE"}

RemoteSetUserName ==
  /\ \E n \in RemoteNames :
       LET doc == DocAt(store, KeyA)
       IN  /\ doc.users["u1"].name # n
           /\ store' = PutDoc(store, KeyA, [doc EXCEPT !.users["u1"].name = n])
  /\ UNCHANGED <<peer, baseFileId, firebaseRef, userRef, userName, defaultPermission,
                 actualUserPermission, pushCount, location, fx, join, copy, uiVars>>

RemoteSetUserPermission ==
  /\ \E p \in RemotePermissions :
       LET doc == DocAt(store, KeyA)
       IN  /\ doc.users["u1"].permission # p
           /\ store' = PutDoc(store, KeyA, [doc EXCEPT !.users["u1"].permission = p])
  /\ UNCHANGED <<peer, baseFileId, firebaseRef, userRef, userName, defaultPermission,
                 actualUserPermission, pushCount, location, fx, join, copy, uiVars>>

RemoteSetDefaultPermission ==
  /\ \E p \in DefaultPermissions :
       LET doc == DocAt(store, KeyA)
       IN  /\ StoredDefaultPermission(store, KeyA) # p
           /\ store' = PutDoc(store, KeyA,
                 [doc EXCEPT !.fields["settings"] = SetChild(@, "defaultPermission", p)])
  /\ UNCHANGED <<peer, baseFileId, firebaseRef, userRef, userName, defaultPermission,
                 actualUserPermission, pushCount, location, fx, join, copy, uiVars>>

DefaultPermissionChanged ==
  /\ firebaseRef # Null
  /\ defaultPermission # StoredDefaultPermission(store, firebaseRef)
  /\ defaultPermission' = StoredDefaultPermission(store, firebaseRef)
  /\ UNCHANGED <<peer, store, baseFileId, firebaseRef, userRef, userName,
                 actualUserPermission, pushCount, location, fx, join, copy, uiVars>>

-----------------------------------------------------------------------------
(* Idle values of the components a specification leaves alone *)

JoinIdle == JoinBlank("none")

-----------------------------------------------------------------------------
(* The join operations against a workspace other clients write to *)

SharedDoc ==
  [EmptyDoc EXCEPT
     !.users["u2"] = [name |-> "Bob", color |-> colorFromUserId("u2"), permission |-> "OWNER"],
     !.fields["settings"] = [EmptyObj EXCEPT !["defaultPermission"] = "READ_WRITE",
                                             !["data"] = "cpp"]]

InitJoin ==
  /\ store = [k \in {KeyA} |-> SharedDoc]
  /\ baseFileId = NullFile
  /\ firebaseRef \in {Null, KeyA}
  /\ userRef \in {NullUserRef, RootRef, UserRefOf(KeyA, "u1")}
  /\ userName \in {Null, "", "Ann", "Bob"}
  /\ defaultPermission \in {Null, "READ_WRITE"}
  /\ actualUserPermission = Null
  /\ pushCount = 0
  /\ location = [path |-> "/", search |-> "", entries |-> 1]
  /\ fx = NoFx
  /\ join = JoinIdle
  /\ peer = JoinIdle
  /\ copy = CopyIdle
  /\ modal = ModalClosed
  /\ realWorkspaceSettings = CommittedSettings
  /\ editorModeAtom = "Normal"
  /\ firebaseUser = User("u1", "Ann")

NextJoin ==
  \/ JoinOwnerStart
  \/ JoinOwnerUpdate
  \/ JoinExistingStart
  \/ JoinExistingRead
  \/ JoinExistingWrite
  \/ RemoteSetUserName
  \/ RemoteSetUserPermission
  \/ RemoteSetDefaultPermission
  \/ DefaultPermissionChanged

SpecJoin == InitJoin /\ [][NextJoin]_vars

-----------------------------------------------------------------------------
(* Properties of the join operations, checked under SpecJoin *)

JoinStep == join' # join

OwnerRecord(key, name) ==
  [name |-> name, color |-> colorFromUserId(key), permission |-> "OWNER"]

\* C1: join-as-owner with the reference, the user reference and its key, and a
\* non-empty name set goes on to one update; every step of it that changes the store
\* leaves users/<key> = {name, color, OWNER} and settings/defaultPermission =
\* READ_WRITE together in the document at the reference, and it resolves only after
\* that one update.
C1_OwnerJoinSingleUpdate ==
  [][ /\ ( /\ join.pc = "done" /\ JoinStep /\ join'.op = "owner"
           /\ firebaseRef # Null /\ userRef # NullUserRef /\ userRef # RootRef
           /\ Truthy(userName) )
         => (join'.pc = "updating" /\ store' = store)
      /\ (join.op = "owner" /\ join.pc = "updating" /\ JoinStep)
         => /\ join'.pc = "done"
            /\ (join'.result = "ok") = (store' # store \/ join'.writes = 1)
            /\ (join'.result = "ok") =>
                 /\ join'.writes = 1
                 /\ DocAt(store', join.ref).users[join.userRef.key]
                      = OwnerRecord(join.userRef.key, join.name)
                 /\ StoredDefaultPermission(store', join.ref) = "READ_WRITE"
            /\ (join'.result # "ok") => store' = store
    ]_vars

C1_Witness ==
  /\ join.op = "owner" /\ join.pc = "done" /\ join.result = "ok" /\ join.writes = 1
  /\ join.name = "Ann"
  /\ DocAt(store, KeyA).users["u1"] = OwnerRecord("u1", "Ann")
  /\ StoredDefaultPermission(store, KeyA) = "READ_WRITE"

\* C2: when join-existing has read the user's record, the default permission it
\* holds is PRIVATE and the record read has no permission, it resolves without an
\* error and without a write, whatever the stored name and the session name are.
C2_PrivateFileNoWrite ==
  [][ ( /\ join.op = "existing" /\ join.pc = "reading" /\ JoinStep
        /\ join'.error = ""
        /\ join.permission = "PRIVATE"
        /\ ~Truthy(UserAt(store, join.userRef).permission) )
      => ( /\ join'.pc = "done" /\ join'.result = "ok"
           /\ join'.writes = 0 /\ join'.write = "none"
           /\ store' = store )
    ]_vars

C2_Witness ==
  /\ join.op = "existing" /\ join.pc = "done" /\ join.at = "reading"
  /\ join.result = "ok" /\ join.error = "" /\ join.writes = 0
  /\ join.permission = "PRIVATE"
  /\ join.snap.permission = Null
  /\ join.snap.name = "Bob" /\ join.name = "Ann"

\* Every document but k, and in k everything but the record of user key, is the same
\* in s and t.
SameExceptUser(s, t, k, key) ==
  /\ \A d \in (DOMAIN s \cup DOMAIN t) \ {k} : DocAt(s, d) = DocAt(t, d)
  /\ DocAt(s, k).fields = DocAt(t, k).fields
  /\ \A u \in UserKeys \ {key} : DocAt(s, k).users[u] = DocAt(t, k).users[u]

\* C3: when join-existing is past the private-file case and the record read has a
\* name: if that name is the session name it resolves without a write; otherwise its
\* only write sets the name field of the user's record to the session name and
\* leaves the record's color and permission and the rest of the database as they
\* were.
C3_NameOnlyOverwrite ==
  [][ /\ ( /\ join.op = "existing" /\ join.pc = "reading" /\ JoinStep
           /\ join'.error = ""
           /\ ~(join.permission = "PRIVATE" /\ ~Truthy(join'.snap.permission))
           /\ Truthy(join'.snap.name) )
         => /\ store' = store
            /\ IF join'.snap.name = join.name
               THEN join'.pc = "done" /\ join'.result = "ok" /\ join'.writes = 0
               ELSE join'.pc = "writing" /\ join'.write = "name"
      /\ ( /\ join.op = "existing" /\ join.pc = "writing" /\ JoinStep
           /\ Truthy(join.snap.name) )
         => /\ join.snap.name # join.name
            /\ \/ store' = store /\ join'.writes = 0
               \/ /\ join'.writes = 1
                  /\ SameExceptUser(store, store', join.userRef.doc, join.userRef.key)
                  /\ LET old == UserAt(store, join.userRef)
                         new == UserAt(store', join.userRef)
                     IN  /\ new.name = join.name
                         /\ new.color = old.color
                         /\ new.permission = old.permission
    ]_vars

C3_Witness ==
  /\ join.op = "existing" /\ join.pc = "done" /\ join.at = "writing"
  /\ join.result = "ok" /\ join.writes = 1 /\ join.write = "name"
  /\ join.snap.name = "Bob" /\ join.name = "Ann"
  /\ UserAt(store, join.userRef).name = "Ann"
  /\ UserAt(store, join.userRef).permission = "READ"

\* C4: either join operation started while the workspace reference is unset, or the
\* user reference or its key is unset, or the session name is null or empty, throws
\* at once: it issues no read and no write and the store is unchanged.
C4_PreconditionFailsFast ==
  [][ ( /\ join.pc = "done" /\ JoinStep
        /\ \/ firebaseRef = Null
           \/ userRef = NullUserRef
           \/ userRef = RootRef
           \/ userName = Null
           \/ userName = "" )
      => ( /\ join'.pc = "done" /\ join'.result = "error"
           /\ join'.error \in {RefError, UserRefError, NameError}
           /\ join'.reads = 0 /\ join'.writes = 0
           /\ store' = store )
    ]_vars

C4_Witness ==
  /\ join.op = "existing" /\ join.pc = "done" /\ join.at = "start"
  /\ join.result = "error" /\ join.error = NameError
  /\ firebaseRef # Null /\ userRef = UserRefOf(KeyA, "u1") /\ userName = ""
  /\ join.reads = 0 /\ join.writes = 0

Failures == Outcomes \ {"ok"}

\* C5 as stated: of the failures of join-existing only a permission-denied failure
\* of the read is swallowed; every other failure rejects the operation.
C5_OnlyReadDenialSwallowed ==
  (join.op = "existing" /\ join.pc = "done" /\ join.error \in Failures)
    => /\ join.writes = 0
       /\ (join.result = "ok") = (join.error = "PERMISSION_DENIED" /\ join.at = "reading")

\* C5 as amended: a permission-denied failure of the read or of the write that
\* follows it is swallowed (the operation resolves, nothing written); a failure
\* with any other code rejects the operation.
C5_DenialSwallowed ==
  (join.op = "existing" /\ join.pc = "done" /\ join.error \in Failures)
    => /\ join.writes = 0
       /\ (join.result = "ok") = (join.error = "PERMISSION_DENIED")
       /\ (join.result = "error") = (join.error # "PERMISSION_DENIED")

C5_Witness ==
  /\ join.op = "existing" /\ join.pc = "done" /\ join.at = "writing"
  /\ join.error = "PERMISSION_DENIED" /\ join.result = "ok" /\ join.writes = 0

-----------------------------------------------------------------------------
(* The resolver and the accessors *)

InitRefs ==
  /\ store = [k \in {KeyA} |-> SharedDoc]
  /\ baseFileId = NullFile
  /\ firebaseRef = Null
  /\ userRef = NullUserRef
  /\ userName = "Ann"
  /\ defaultPermission = Null
  /\ actualUserPermission = Null
  /\ pushCount = 0
  /\ location = [path |-> "/" \o IdA, search |-> "?lang=py", entries |-> 2]
  /\ fx = NoFx
  /\ join = JoinIdle
  /\ peer = JoinIdle
  /\ copy = CopyIdle
  /\ modal = ModalClosed
  /\ realWorkspaceSettings = CommittedSettings
  /\ editorModeAtom = "Normal"
  /\ firebaseUser = User("u1", "Ann")

NextRefs ==
  \/ SetFileId
  \/ SetActualUserPermission
  \/ SetUserRef

SpecRefs == InitRefs /\ [][NextRefs]_vars

\* C6: a write of fileIdAtom with the non-null identifier the write before it had
\* (so that the file it names is the one already active) changes nothing: it sets
\* neither the identifier state nor the reference handle and does not navigate.
C6_SameIdTwiceNoOp ==
  ( /\ fx.op = "fileId"
    /\ fx.payload # NullPayload /\ fx.prevPayload # NullPayload
    /\ Truthy(fx.payload.newId)
    /\ fx.payload.newId = fx.prevPayload.newId
    /\ fx.prevFile # NullFile /\ fx.prevFile.id = Key(fx.payload.newId) )
  => (~fx.setId /\ ~fx.setRef /\ ~fx.navigated)

\* C7: in every state each accessor is the raw reference when the actual user
\* permission is OWNER, READ_WRITE or READ, and null when it is PRIVATE or unset.
C7_AccessorGate ==
  /\ actualUserPermission \in {"OWNER", "READ_WRITE", "READ"}
       => /\ authenticatedFirebaseRefAtom = firebaseRef
          /\ authenticatedUserRefAtom = userRef
  /\ actualUserPermission \in {"PRIVATE", Null}
       => /\ authenticatedFirebaseRefAtom = Null
          /\ authenticatedUserRefAtom = NullUserRef

C7_Witness ==
  /\ actualUserPermission = "READ"
  /\ firebaseRef = KeyA /\ authenticatedFirebaseRefAtom = KeyA
  /\ userRef = UserRefOf(KeyA, "u1") /\ authenticatedUserRefAtom = UserRefOf(KeyA, "u1")

-----------------------------------------------------------------------------
(* The copy page against a source document of varied content *)

FullObj ==
  [EmptyObj EXCEPT !["users"] = "U", !["defaultPermission"] = "PRIVATE", !["data"] = "d"]

DataObj == [EmptyObj EXCEPT !["data"] = "d"]

SourceDocs ==
  { [users |-> [u \in UserKeys |->
                  IF u = "u2" THEN OwnerRecord("u2", "Bob") ELSE NoUser],
     fields |-> [k \in TopKeys |->
                   CASE k = "editor-cpp" -> cpp
                     [] k = "settings" -> settings
                     [] k = "editor-java" -> java
                     [] k = "input" -> input
                     [] OTHER -> EmptyObj]] :
      cpp \in {EmptyObj, FullObj, DataObj, Prim("string", "hi")},
      settings \in {EmptyObj, FullObj, DataObj, Prim("number", "7")},
      java \in {EmptyObj, [DataObj EXCEPT !["users"] = "U"]},
      input \in {DataObj, Prim("string", "")} }

InitCopy ==
  /\ store \in {[k \in {KeyA} |-> d] : d \in SourceDocs}
  /\ baseFileId = NullFile
  /\ firebaseRef = Null
  /\ userRef = NullUserRef
  /\ userName = "Ann"
  /\ defaultPermission = Null
  /\ actualUserPermission = Null
  /\ pushCount = 0
  /\ location = [path |-> "/" \o IdA \o "/copy", search |-> "?lang=py", entries |-> 2]
  /\ fx = NoFx
  /\ join = JoinIdle
  /\ peer = JoinIdle
  /\ copy = CopyIdle
  /\ modal = ModalClosed
  /\ realWorkspaceSettings = CommittedSettings
  /\ editorModeAtom = "Normal"
  /\ firebaseUser = User("u1", "Ann")

NextCopy ==
  \/ CopyEffect
  \/ CopyRead
  \/ CopyWrite
  \/ CopyActivate

SpecCopy == InitCopy /\ [][NextCopy]_vars

Stripped == {"users", "defaultPermission"}

\* C8 as stated: once the copy is written, the new document has no users list, its
\* settings field is the source's without users and defaultPermission, and every
\* other whitelisted field that holds an object in the source is the same object in
\* the copy.
C8_StrippedFromSettingsOnly ==
  copy.pc = "written" =>
    LET src == DocAt(store, copy.oldRef)
        new == DocAt(store, copy.newRef)
    IN  /\ new.users = EmptyDoc.users
        /\ \A k \in TopKeys :
             IsObj(src.fields[k]) =>
               \A sub \in SubKeys :
                 new.fields[k][sub] =
                   IF k = "settings" /\ sub \in Stripped THEN Null ELSE src.fields[k][sub]

\* C8 as amended: once the copy is written, the new document has no users list, and
\* every whitelisted field that holds an object in the source (or is absent there)
\* is in the copy that object without its users and defaultPermission entries,
\* whichever field it is, with every other entry as in the source.
C8_StrippedFromEveryField ==
  copy.pc = "written" =>
    LET src == DocAt(store, copy.oldRef)
        new == DocAt(store, copy.newRef)
    IN  /\ new.users = EmptyDoc.users
        /\ \A k \in TopKeys :
             /\ IsObj(new.fields[k])
             /\ IsObj(src.fields[k]) =>
                  \A sub \in SubKeys :
                    new.fields[k][sub] =
                      IF sub \in Stripped THEN Null ELSE src.fields[k][sub]

C8_Witness ==
  /\ copy.pc = "written" /\ copy.fileId = IdA
  /\ DocAt(store, KeyA).users["u2"].permission = "OWNER"
  /\ DocAt(store, KeyA).fields["settings"] = FullObj
  /\ DocAt(store, KeyA).fields["editor-cpp"] = FullObj
  /\ DocAt(store, copy.newRef).fields["settings"] = DataObj
  /\ DocAt(store, copy.newRef).fields["editor-cpp"] = DataObj

CopyStartStep == ~CopyRunning /\ copy' # copy

\* C9: the effect run with a file identifier that is missing or not 19 characters
\* long issues no read and no write, leaves the store and the active workspace
\* reference as they were, alerts, and navigates to '/'.
C9_BadUrlNoCopy ==
  [][ ( /\ CopyStartStep
        /\ (copy'.fileId = Null \/ Len(copy'.fileId) # 19) )
      => ( /\ copy'.pc = "badUrl"
           /\ copy'.reads = 0 /\ copy'.writes = 0
           /\ store' = store
           /\ firebaseRef' = firebaseRef /\ baseFileId' = baseFileId
           /\ fx'.op = "copy" /\ fx'.alert = BadUrlAlert /\ fx'.navigated
           /\ location'.path = "/" /\ location'.search = ""
           /\ location'.entries = location.entries )
    ]_vars

C9_Witness ==
  /\ copy.pc = "badUrl" /\ copy.fileId = KeyA
  /\ copy.reads = 0 /\ copy.writes = 0
  /\ fx.op = "copy" /\ fx.alert = BadUrlAlert
  /\ location = [path |-> "/", search |-> "", entries |-> 2]

-----------------------------------------------------------------------------
(* The settings modal *)

InitModal ==
  /\ store = [k \in {KeyA} |-> [SharedDoc EXCEPT !.users["u1"] =
                                  [name |-> "Ann", color |-> colorFromUserId("u1"),
                                   permission |-> "READ_WRITE"]]]
  /\ baseFileId = [id |-> KeyA, isNewFile |-> FALSE]
  /\ firebaseRef = KeyA
  /\ userRef = UserRefOf(KeyA, "u1")
  /\ userName = "Ann"
  /\ defaultPermission = "READ_WRITE"
  /\ actualUserPermission \in {"READ_WRITE", "PRIVATE"}
  /\ pushCount = 0
  /\ location = [path |-> "/" \o IdA, search |-> "", entries |-> 1]
  /\ fx = NoFx
  /\ join = JoinIdle
  /\ peer = JoinIdle
  /\ copy = CopyIdle
  /\ modal = ModalClosed
  /\ realWorkspaceSettings = CommittedSettings
  /\ editorModeAtom = "Normal"
  /\ firebaseUser = User("u1", "Ann")

NextModal ==
  \/ OpenModal
  \/ SetTab
  \/ OnChange
  \/ OnNameChange
  \/ OnEditorModeChange
  \/ CloseWithoutSaving
  \/ DialogOnClose
  \/ SaveAndClose
  \/ ProfileUpdated

SpecModal == InitModal /\ [][NextModal]_vars

\* C10: a step that closes the open modal while the dirty flag is set, other than
\* save-and-close, has asked for confirmation and got it; the Cancel and X buttons
\* leave the modal open and the draft as it is when confirmation is refused, and
\* close at once when the dirty flag is not set.
C10_DirtyCloseNeedsConfirmation ==
  [][ /\ (modal.isOpen /\ modal.dirty /\ ~modal'.isOpen /\ fx'.op # "saveAndClose")
         => (fx'.confirmAsked /\ fx'.confirmed)
      /\ (modal.isOpen /\ modal.dirty /\ fx'.op = "closeWithoutSaving" /\ ~fx'.confirmed)
         => modal' = modal
      /\ (modal.isOpen /\ ~modal.dirty /\ fx'.op = "closeWithoutSaving")
         => (~modal'.isOpen /\ ~fx'.confirmAsked)
    ]_vars

\* C11: every step that opens the modal leaves the draft workspace settings equal
\* to the committed workspace settings, the draft name equal to the identity's
\* display name (null when it has none), the draft editor mode equal to the
\* committed editor mode and the dirty flag cleared; every step of the open modal
\* that changes the draft settings, the draft name or the draft editor mode leaves
\* the dirty flag set.
C11_OpenSeedsDraft ==
  [][ /\ (~modal.isOpen /\ modal'.isOpen)
         => /\ modal'.workspaceSettings = realWorkspaceSettings
            /\ modal'.name = (IF Truthy(DisplayNameOf(firebaseUser))
                              THEN DisplayNameOf(firebaseUser) ELSE Null)
            /\ modal'.editorMode = editorModeAtom
            /\ ~modal'.dirty
      /\ ( /\ modal.isOpen /\ modal'.isOpen
           /\ \/ modal'.workspaceSettings # modal.workspaceSettings
              \/ modal'.name # modal.name
              \/ modal'.editorMode # modal.editorMode )
         => modal'.dirty
    ]_vars

-----------------------------------------------------------------------------
(* The settings modal closed by the Save button only *)

NextSave ==
  \/ OpenModal
  \/ SetTab
  \/ OnChange
  \/ OnNameChange
  \/ OnEditorModeChange
  \/ SaveAndClose
  \/ ProfileUpdated

SpecSave == InitModal /\ [][NextSave]_vars

SaveStep == modal.isOpen /\ ~modal'.isOpen /\ fx'.op = "saveAndClose"

\* C12 as stated: save-and-close commits the draft settings and the editor mode and
\* closes the modal; when the draft name differs from the identity's display name
\* the name is sent to the identity provider and afterwards the user's record and
\* the session name state hold it; when it does not differ, the identity, the store
\* and the session name state are left as they were.
C12_SaveWritesAllThree ==
  [][ SaveStep =>
        /\ realWorkspaceSettings' = modal.workspaceSettings
        /\ editorModeAtom' = modal.editorMode
        /\ IF modal.name # DisplayNameOf(firebaseUser)
           THEN /\ firebaseUser'.pending = Append(firebaseUser.pending, modal.name)
                /\ UserAt(store', userRef).name = modal.name
                /\ userName' = modal.name
           ELSE /\ firebaseUser' = firebaseUser
                /\ store' = store
                /\ userName' = userName
    ]_vars

\* C12 as amended: save-and-close commits the draft settings and the editor mode and
\* closes the modal; when the draft name differs from the identity's display name
\* the name is sent to the identity provider, the session name state is set to it,
\* and a write of the name field of the user's record is issued exactly when the
\* permission-gated user reference is not null: the store changes in nothing but
\* that name field, and not at all when the reference is null or the write fails;
\* when the name does not differ, the identity, the store and the session name
\* state are left as they were.
C12_SaveCommits ==
  [][ SaveStep =>
        /\ realWorkspaceSettings' = modal.workspaceSettings
        /\ editorModeAtom' = modal.editorMode
        /\ IF modal.name # DisplayNameOf(firebaseUser)
           THEN /\ firebaseUser # NoFirebaseUser
                     => firebaseUser'.pending = Append(firebaseUser.pending, modal.name)
                /\ firebaseUser'.displayName = firebaseUser.displayName
                /\ userName' = modal.name
                /\ fx'.recordSet = (authenticatedUserRefAtom # NullUserRef)
                /\ ~fx'.recordSet => store' = store
                /\ store' # store
                     => /\ UserAt(store', userRef) =
                             [UserAt(store, userRef) EXCEPT !.name = modal.name]
                        /\ SameExceptUser(store, store', userRef.doc, userRef.key)
           ELSE /\ firebaseUser' = firebaseUser
                /\ store' = store
                /\ userName' = userName
                /\ ~fx'.profileUpdate /\ ~fx'.recordSet /\ ~fx'.nameSet
    ]_vars

C12_Witness ==
  /\ ~modal.isOpen /\ fx.op = "saveAndClose" /\ fx.recordSet /\ fx.profileUpdate
  /\ modal.name = "Bob" /\ userName = "Bob"
  /\ UserAt(store, userRef).name = "Bob"
  /\ firebaseUser.displayName = "Ann" /\ firebaseUser.pending = <<"Bob">>
  /\ realWorkspaceSettings = modal.workspaceSettings
  /\ realWorkspaceSettings["language"] = "py"
  /\ editorModeAtom = "Vim"

-----------------------------------------------------------------------------
(* Failures and ordering of the copy page, checked under SpecCopy *)

\* The step in which a read or the write of the running copy is rejected.
CopyFailureStep == copy.pc \in {"reading", "writing"} /\ copy'.error # ""

\* C13 as stated: a rejected read or write leaves the store, the active reference
\* and the address as they were, with nothing written; a permission-denied
\* rejection of a read shows 'This file is private.' without an alert; every other
\* rejection alerts, is thrown again and leaves the message as it was; after a
\* rejection the page does nothing until the effect runs again.
C13_OnlyReadDenialIsPrivate ==
  [][ /\ CopyFailureStep
         => /\ store' = store /\ copy'.writes = 0
            /\ firebaseRef' = firebaseRef /\ baseFileId' = baseFileId
            /\ location' = location
            /\ IF copy.pc = "reading" /\ copy'.error = "PERMISSION_DENIED"
               THEN /\ CopyPageMessage(copy') = PrivateMessage
                    /\ fx'.alert = "" /\ copy'.pc = "denied"
               ELSE /\ CopyPageMessage(copy') = CopyPageMessage(copy)
                    /\ fx'.alert = CloneFailedAlert \o copy'.error
                    /\ copy'.pc = "failed"
      /\ (copy.pc \in {"denied", "failed"} /\ copy' # copy)
         => /\ copy'.pc \in {"badUrl", "reading"}
            /\ firebaseRef' = firebaseRef /\ baseFileId' = baseFileId
    ]_vars

\* C13 as amended: a rejected read or write leaves the store, the active reference
\* and the address as they were, with nothing written; a permission-denied
\* rejection, of a read or of the write, shows 'This file is private.' without an
\* alert; a rejection with any other code alerts, is thrown again and leaves the
\* message as it was; after a rejection the page does nothing until the effect runs
\* again.
C13_DenialIsPrivate ==
  [][ /\ CopyFailureStep
         => /\ store' = store /\ copy'.writes = 0
            /\ firebaseRef' = firebaseRef /\ baseFileId' = baseFileId
            /\ location' = location
            /\ IF copy'.error = "PERMISSION_DENIED"
               THEN /\ CopyPageMessage(copy') = PrivateMessage
                    /\ fx'.alert = "" /\ copy'.pc = "denied"
               ELSE /\ CopyPageMessage(copy') = CopyPageMessage(copy)
                    /\ fx'.alert = CloneFailedAlert \o copy'.error
                    /\ copy'.pc = "failed"
      /\ (copy.pc \in {"denied", "failed"} /\ copy' # copy)
         => /\ copy'.pc \in {"badUrl", "reading"}
            /\ firebaseRef' = firebaseRef /\ baseFileId' = baseFileId
    ]_vars

\* The write to the new document was denied: every read had answered.
C13_Witness ==
  /\ copy.pc = "denied" /\ copy.error = "PERMISSION_DENIED" /\ copy.pending = {}
  /\ CopyPageMessage(copy) = PrivateMessage
  /\ copy.writes = 0 /\ copy.newRef \notin DOMAIN store
  /\ firebaseRef = Null /\ baseFileId = NullFile
  /\ fx.op = "copy" /\ fx.alert = ""

-----------------------------------------------------------------------------
(* The identity adapter together with the saves of the settings modal *)

InitIdentity ==
  /\ store = [k \in {KeyA} |-> [SharedDoc EXCEPT !.users["u1"] =
                                  [name |-> "Ann", color |-> colorFromUserId("u1"),
                                   permission |-> "READ_WRITE"]]]
  /\ baseFileId = [id |-> KeyA, isNewFile |-> FALSE]
  /\ firebaseRef = KeyA
  /\ userRef = UserRefOf(KeyA, "u1")
  /\ userName = Null
  /\ defaultPermission = "READ_WRITE"
  /\ actualUserPermission = "READ_WRITE"
  /\ pushCount = 0
  /\ location = [path |-> "/" \o IdA, search |-> "", entries |-> 1]
  /\ fx = NoFx
  /\ join = JoinIdle
  /\ peer = JoinIdle
  /\ copy = CopyIdle
  /\ modal = ModalClosed
  /\ realWorkspaceSettings = CommittedSettings
  /\ editorModeAtom = "Normal"
  /\ firebaseUser = NoFirebaseUser

NextIdentity ==
  \/ AuthStateChanged
  \/ ProfileUpdated
  \/ OpenModal
  \/ SetTab
  \/ OnNameChange
  \/ SaveAndClose

SpecIdentity == InitIdentity /\ [][NextIdentity]_vars

AuthStep == fx'.op = "authStateChanged" /\ <<fx, firebaseUser, userName>>' # <<fx, firebaseUser, userName>>

\* C14: after a notification the user the atom holds is the notified user; the
\* session name is null when that user is null, its display name when it has one,
\* and otherwise a default name 'Anonymous <animal>' which is also the name of the
\* profile update sent for that user.
C14_NameFollowsNotifiedUser ==
  [][ AuthStep =>
        IF fx'.user = NoFirebaseUser
        THEN firebaseUser' = NoFirebaseUser /\ userName' = Null
        ELSE /\ firebaseUser'.uid = fx'.user.uid
             /\ firebaseUser'.displayName = fx'.user.displayName
             /\ IF fx'.user.displayName \notin {Null, ""}
                THEN /\ userName' = fx'.user.displayName
                     /\ firebaseUser' = fx'.user
                ELSE /\ userName' \in {"Anonymous " \o a : a \in animals}
                     /\ firebaseUser'.pending = Append(fx'.user.pending, userName')
    ]_vars

C14_Witness ==
  /\ fx.op = "authStateChanged" /\ fx.user = User("u1", Null)
  /\ userName = "Anonymous Bee"
  /\ firebaseUser = [uid |-> "u1", displayName |-> Null, pending |-> <<"Anonymous Bee">>]

-----------------------------------------------------------------------------
(* Join-existing against concurrent writers, checked under SpecJoin *)

\* C15: when the read of the user's record answers while the default permission
\* stored in the workspace is PRIVATE and the record has no permission, join-existing
\* resolves there and then: it issues no write and the store stays as it is.
C15_PrivateAtReadNoWrite ==
  [][ ( /\ join.op = "existing" /\ join.pc = "reading" /\ JoinStep
        /\ join'.error = ""
        /\ StoredDefaultPermission(store, join.ref) = "PRIVATE"
        /\ ~Truthy(UserAt(store, join.userRef).permission) )
      => ( /\ join'.pc = "done" /\ join'.result = "ok"
           /\ join'.write = "none" /\ join'.writes = 0
           /\ store' = store )
    ]_vars

\* C16: when join-existing is past the private-file case and the record read has no
\* name, whatever default permission it holds, it goes on to one merging update of
\* the user's own record; when that update succeeds the record holds the session
\* name and the color of the user key, its permission is the one stored before the
\* update, and the rest of the database is as it was.
C16_FirstJoinMergesNameAndColor ==
  [][ /\ ( /\ join.op = "existing" /\ join.pc = "reading" /\ JoinStep
           /\ join'.error = ""
           /\ ~(join.permission = "PRIVATE" /\ ~Truthy(join'.snap.permission))
           /\ ~Truthy(join'.snap.name) )
         => /\ store' = store
            /\ join'.pc = "writing" /\ join'.write = "update"
      /\ ( /\ join.op = "existing" /\ join.pc = "writing" /\ JoinStep
           /\ ~Truthy(join.snap.name) )
         => /\ join.write = "update"
            /\ \/ store' = store /\ join'.writes = 0 /\ join'.error # ""
               \/ /\ join'.writes = 1 /\ join'.result = "ok"
                  /\ SameExceptUser(store, store', join.userRef.doc, join.userRef.key)
                  /\ LET old == UserAt(store, join.userRef)
                         new == UserAt(store', join.userRef)
                     IN  /\ new.name = join.name
                         /\ new.color = colorFromUserId(join.userRef.key)
                         /\ new.permission = old.permission
    ]_vars

C16_Witness ==
  /\ join.op = "existing" /\ join.pc = "done" /\ join.at = "writing"
  /\ join.result = "ok" /\ join.writes = 1 /\ join.write = "update"
  /\ join.permission = "PRIVATE"
  /\ join.snap.name = Null /\ join.snap.permission = "READ" /\ join.name = "Ann"
  /\ UserAt(store, join.userRef) =
       [name |-> "Ann", color |-> colorFromUserId("u1"), permission |-> "READ"]

\* C17: the active reference and the recorded identifier change only in the step
\* that follows the successful write of the copy, and then to the new reference's
\* own key with the is-new-file flag set, the address becoming '/' and that key
\* without its dash, query string kept; the address changes in no other step but a
\* bad-URL redirect; after a rejected read or write the reference of that run is
\* not the active reference, not in the address and not written.
C17_ActivatedOnlyAfterWrite ==
  [][ /\ (firebaseRef' # firebaseRef \/ baseFileId' # baseFileId)
         => /\ copy.pc = "written" /\ copy.writes = 1 /\ copy.error = ""
            /\ DocAt(store, copy.newRef) = updateObject(copy.data)
            /\ firebaseRef' = copy.newRef
            /\ baseFileId' = [id |-> copy.newRef, isNewFile |-> TRUE]
            /\ location' = [location EXCEPT !.path = "/" \o SubSeq(copy.newRef, 2, 20)]
      /\ (location' # location)
         => \/ firebaseRef' # firebaseRef
            \/ copy'.pc = "badUrl" /\ location'.path = "/"
      /\ copy'.pc \in {"denied", "failed"}
         => /\ firebaseRef' # copy'.newRef
            /\ location'.path # "/" \o SubSeq(copy'.newRef, 2, 20)
            /\ copy'.newRef \notin DOMAIN store'
    ]_vars

C17_Witness ==
  /\ copy.pc = "done" /\ copy.writes = 1 /\ copy.newRef = PushKey(2)
  /\ firebaseRef = PushKey(2)
  /\ baseFileId = [id |-> PushKey(2), isNewFile |-> TRUE]
  /\ location = [path |-> "/q" \o Pad, search |-> "?lang=py", entries |-> 2]
  /\ DocAt(store, firebaseRef) = updateObject(copy.data)

-----------------------------------------------------------------------------
(* Two users joining the same workspace at the same time *)

\* The records a user may have in the workspace before joining.
StoredRecords(key) ==
  { NoUser,
    [name |-> Null, color |-> Null, permission |-> "READ"],
    [name |-> "Ann", color |-> colorFromUserId(key), permission |-> Null],
    [name |-> "Bob", color |-> colorFromUserId(key), permission |-> "READ_WRITE"] }

InitRace ==
  /\ store \in { [k \in {KeyA} |-> [SharedDoc EXCEPT !.users["u1"] = r1, !.users["u2"] = r2]] :
                   r1 \in StoredRecords("u1"), r2 \in StoredRecords("u2") }
  /\ baseFileId = [id |-> KeyA, isNewFile |-> FALSE]
  /\ firebaseRef = KeyA
  /\ userRef = UserRefOf(KeyA, "u1")
  /\ userName \in {"Ann", "Bob"}
  /\ defaultPermission \in {"READ_WRITE", "PRIVATE"}
  /\ actualUserPermission = Null
  /\ pushCount = 0
  /\ location = [path |-> "/" \o IdA, search |-> "", entries |-> 1]
  /\ fx = NoFx
  /\ join = JoinIdle
  /\ peer = JoinIdle
  /\ copy = CopyIdle
  /\ modal = ModalClosed
  /\ realWorkspaceSettings = CommittedSettings
  /\ editorModeAtom = "Normal"
  /\ firebaseUser = User("u1", "Ann")

NextRace ==
  \/ JoinExistingStart
  \/ JoinExistingRead
  \/ JoinExistingWrite
  \/ PeerJoinExistingStart
  \/ PeerJoinExistingRead
  \/ PeerJoinExistingWrite

SpecRace == InitRace /\ [][NextRace]_vars

\* The record a join-existing that has read snap leaves when nobody else writes:
\* snap with the name, or the name and the color, it wrote.
AloneRecord(j) ==
  IF j.writes = 0 THEN j.snap
  ELSE IF j.write = "update"
       THEN [j.snap EXCEPT !.name = j.name, !.color = colorFromUserId(j.userRef.key)]
       ELSE [j.snap EXCEPT !.name = j.name]

\* The operation has settled after its read answered.
SettledAfterRead(j) ==
  /\ j.op = "existing" /\ j.pc = "done"
  /\ j.at = "writing" \/ (j.at = "reading" /\ j.error = "")

\* C18: with two users running join-existing on one workspace, every step of either
\* leaves the other user's record, every permission field and the workspace fields
\* (settings/defaultPermission among them) as they were; and whenever a user's
\* operation has settled after reading, that user's record is the record it read
\* with only the name, or the name and color, it wrote: what it leaves when run
\* alone.
C18_JoinersDoNotInterfere ==
  [][ /\ join' # join
         => /\ SameExceptUser(store, store', KeyA, "u1")
            /\ UserAt(store', userRef).permission = UserAt(store, userRef).permission
      /\ peer' # peer
         => /\ SameExceptUser(store, store', KeyA, "u2")
            /\ UserAt(store', UserRefOf(KeyA, "u2")).permission
                 = UserAt(store, UserRefOf(KeyA, "u2")).permission
      /\ SettledAfterRead(join') => UserAt(store', join'.userRef) = AloneRecord(join')
      /\ SettledAfterRead(peer') => UserAt(store', peer'.userRef) = AloneRecord(peer')
    ]_vars

\* Both operations have settled and each user's record holds what that user wrote.
C18_Witness ==
  /\ SettledAfterRead(join) /\ join.writes = 1 /\ join.write = "update"
  /\ SettledAfterRead(peer) /\ peer.writes = 1 /\ peer.write = "name"
  /\ join.name = "Ann" /\ peer.name = "Ann"
  /\ UserAt(store, join.userRef) =
       [name |-> "Ann", color |-> colorFromUserId("u1"), permission |-> "READ"]
  /\ UserAt(store, peer.userRef) =
       [name |-> "Ann", color |-> colorFromUserId("u2"), permission |-> "READ_WRITE"]

-----------------------------------------------------------------------------
(* The resolver's two atoms, checked under SpecRefs *)

\* C19: after every step the recorded file and the reference handle are both null
\* or both set, and when set the recorded identifier is the key of the handle; a
\* write of fileIdAtom with null clears both; a write with a payload that installs
\* a reference records the payload's is-new-file flag and the key made from its
\* identifier (a pushed key when it has none), and one that installs nothing leaves
\* both as they were; no other step changes either.
C19_IdAndRefAgree ==
  [][ /\ (baseFileId' = NullFile) = (firebaseRef' = Null)
      /\ baseFileId' # NullFile => baseFileId'.id = firebaseRef'
      /\ fx' # fx
         => /\ fx'.op = "fileId"
            /\ IF fx'.payload = NullPayload
               THEN baseFileId' = NullFile /\ firebaseRef' = Null
               ELSE IF fx'.setId \/ fx'.setRef
               THEN /\ fx'.setId /\ fx'.setRef
                    /\ baseFileId'.isNewFile = fx'.payload.isNewFile
                    /\ firebaseRef' = IF fx'.payload.newId \in {Null, ""}
                                      THEN PushKey(pushCount')
                                      ELSE "-" \o fx'.payload.newId
               ELSE baseFileId' = baseFileId /\ firebaseRef' = firebaseRef
      /\ fx' = fx => (baseFileId' = baseFileId /\ firebaseRef' = firebaseRef)
    ]_vars

\* A reference installed over another one, then kept by a write the guard ignores.
C19_Witness ==
  /\ fx.op = "fileId" /\ ~fx.setId /\ ~fx.setRef
  /\ fx.payload = Payload(KeyA, FALSE)
  /\ fx.prevPayload = Payload(IdA, TRUE)
  /\ baseFileId = [id |-> KeyA, isNewFile |-> TRUE]
  /\ firebaseRef = KeyA

-----------------------------------------------------------------------------
(* The session name under notifications and saves, checked under SpecIdentity *)

\* C20: in every state in which a user is signed in, the session name is a string
\* and not the empty one, so that the name guard of the join operations passes.
C20_SignedInHasName ==
  firebaseUser # NoFirebaseUser
    => /\ userName # Null /\ userName # ""
       /\ joinPrecondition(firebaseRef, userRef, userName) # NameError

====
